---- MODULE Spec2Model ----
(***************************************************************************)
(* Model of app.py, the participatory mapping tool: the worksheet behind   *)
(* the record store, the schema guard (open_or_init_sheet), read_df,       *)
(* append_record, overwrite_df, the address normaliser, the geocoding      *)
(* adapter and the three handlers of the page script (reload,              *)
(* registration submit, administration save).                              *)
(*                                                                         *)
(* A text (Python str) is a sequence of tokens: a token is either one      *)
(* blank " " or a run of non-blank characters.  The empty text is << >>,   *)
(* which is the only falsy text.  A worksheet is a sequence of rows, a row *)
(* a sequence of cells (texts) with the trailing empty cells dropped, as   *)
(* the Sheets API returns it.                                              *)
(***************************************************************************)
EXTENDS Integers, Sequences, FiniteSets, TLC

VARIABLES
    sheet,      \* the worksheet "registros": rows of cells, row 1 is the header
    cached,     \* open_or_init_sheet has run and its result is cached
    nextId,     \* number of record ids handed out so far (uuid4 is fresh)
    seenExtra,  \* non-canonical header cells that ever stood in the header row
    lastRun,    \* what the latest script run did (inputs, calls made, outcome)
    pc,         \* per concurrent administration session: idle/clear/update/done
    snap,       \* per concurrent session: the grid its save writes
    finished,   \* concurrent sessions that completed their save, in order
    clock,      \* the time, in ticks
    limiters,   \* per RateLimiter built so far: the time of its last call, or -1
    cachedLimiter, \* the RateLimiter st.cache_resource holds, 0 when it holds none
    holding,    \* per session: the RateLimiter its pending lookup waits on, or 0
    sent,       \* the times at which requests went to the geocoding service
    addr        \* one call of build_full_address: its arguments and its result

rateVars == <<clock, limiters, cachedLimiter, holding, sent>>

vars ==
    <<sheet, cached, nextId, seenExtra, lastRun, pc, snap, finished, rateVars, addr>>

----------------------------------------------------------------------------
(* Texts *)

E == << >>
Blank == <<" ">>
T(word) == <<word>>

RECURSIVE LStrip(_)
LStrip(t) == IF t # E /\ Head(t) = " " THEN LStrip(Tail(t)) ELSE t

RECURSIVE RStrip(_)
RStrip(t) ==
    IF t # E /\ t[Len(t)] = " " THEN RStrip(SubSeq(t, 1, Len(t) - 1)) ELSE t

\* str.strip()
Strip(t) == RStrip(LStrip(t))

\* ", ".join(parts)
RECURSIVE Join(_)
Join(parts) ==
    IF parts = << >> THEN E
    ELSE IF Len(parts) = 1 THEN parts[1]
    ELSE parts[1] \o <<",", " ">> \o Join(Tail(parts))

Range(s) == {s[i] : i \in 1..Len(s)}

\* [x for x in s if keep(x)]
RECURSIVE SelectCells(_, _)
SelectCells(s, keepSet) ==
    IF s = << >> THEN << >>
    ELSE IF Head(s) \in keepSet THEN <<Head(s)>> \o SelectCells(Tail(s), keepSet)
    ELSE SelectCells(Tail(s), keepSet)

\* a row as the Sheets API holds it: trailing empty cells do not exist
RECURSIVE Trim(_)
Trim(row) ==
    IF row # << >> /\ row[Len(row)] = E THEN Trim(SubSeq(row, 1, Len(row) - 1))
    ELSE row

Cell(row, i) == IF i <= Len(row) THEN row[i] ELSE E

----------------------------------------------------------------------------
(* Schema registry *)

HeaderNames ==
    << "record_id", "timestamp", "rep_name", "email", "space_name",
       "year_established", "street_and_number", "unit_or_sector", "comuna",
       "city", "region", "country", "postal_code", "full_address",
       "latitude", "longitude", "geocode_provider", "geocode_status", "notes" >>

get_headers == [i \in 1..Len(HeaderNames) |-> T(HeaderNames[i])]

\* position of a canonical field in get_headers()
Pos(name) == CHOOSE i \in 1..Len(HeaderNames) : HeaderNames[i] = name

----------------------------------------------------------------------------
(* Numbers and their textual form *)

Lats == {33}
Lons == {70}
Years == {2020}
Numbers == Lats \cup Lons \cup Years

\* str(n)
Str(n) == T(ToString(n))

NaN == [nan |-> TRUE]
Num(n) == [num |-> n]
None == [none |-> TRUE]

\* str(v) of an Optional[float]
CoordStr(v) == IF v = None THEN T("None") ELSE Str(v.num)

\* pd.to_numeric(cell, errors="coerce")
to_numeric(cell) ==
    IF \E n \in Numbers : Str(n) = cell
    THEN Num(CHOOSE n \in Numbers : Str(n) = cell)
    ELSE NaN

\* df.fillna("").astype(str) on one coordinate value
CoordText(v) == IF v = NaN THEN E ELSE Str(v.num)

----------------------------------------------------------------------------
(* Record store adapter *)

\* ws.row_values(1)
Header(s) == IF Len(s) = 0 THEN << >> ELSE s[1]

DataRows(s) == IF Len(s) <= 1 THEN << >> ELSE Tail(s)

\* ws.append_row(row): the row goes below the last row that holds data
AppendRow(s, row) == Append(s, Trim(row))

\* list(dict.fromkeys(cells)): the first occurrence of each cell, in order
RECURSIVE Dedup(_, _)
Dedup(cells, seen) ==
    IF cells = << >> THEN << >>
    ELSE IF Head(cells) \in seen THEN Dedup(Tail(cells), seen)
    ELSE <<Head(cells)>> \o Dedup(Tail(cells), seen \cup {Head(cells)})

\* line 78: current + [c for c in needed if c not in current], de-duplicated
MergeHeaders(current, needed) ==
    Dedup(current \o SelectCells(needed, Range(needed) \ Range(current)), {})

\* the header guard of open_or_init_sheet (a missing worksheet is created
\* blank and then treated as a blank one)
open_or_init_sheet(s) ==
    LET first_row == Header(s) IN
    IF first_row = << >> THEN AppendRow(s, get_headers)
    ELSE IF first_row # get_headers
         THEN [s EXCEPT ![1] = Trim(MergeHeaders(first_row, get_headers))]
         ELSE s

\* ws.clear()
WsClear(s) == << >>

\* ws.update(grid): the grid is written from cell A1; cells outside it stay
WsUpdate(s, grid) ==
    LET n == IF Len(s) > Len(grid) THEN Len(s) ELSE Len(grid)
        Over(i) ==
            IF i > Len(grid) THEN s[i]
            ELSE IF i > Len(s) \/ Len(s[i]) <= Len(grid[i]) THEN Trim(grid[i])
            ELSE [j \in 1..Len(s[i]) |->
                    IF j <= Len(grid[i]) THEN grid[i][j] ELSE s[i][j]]
    IN [i \in 1..n |-> Over(i)]

CoordCols == {T("latitude"), T("longitude")}

\* read_df: ws.get_all_records() keyed by the header row, an empty frame gets
\* the canonical columns, latitude and longitude go through pd.to_numeric
read_df(s) ==
    LET rows == DataRows(s)
        columns == IF rows = << >> THEN get_headers ELSE Header(s)
    IN [ columns |-> columns,
         rows |-> [r \in 1..Len(rows) |->
                     [i \in 1..Len(columns) |->
                        IF columns[i] \in CoordCols
                        THEN to_numeric(Cell(rows[r], i))
                        ELSE Cell(rows[r], i)]] ]

HasCol(df, name) == T(name) \in Range(df.columns)

\* index of the column called name (columns are distinct after the guard)
Col(df, name) == CHOOSE i \in 1..Len(df.columns) : df.columns[i] = T(name)

\* df[name] of one row; "" when the frame has no such column
Field(df, r, name) == IF HasCol(df, name) THEN df.rows[r][Col(df, name)] ELSE E

\* data = [row.get(col, "") for col in get_headers()]; list(map(str, data))
RecordCells(record) ==
    [i \in 1..Len(HeaderNames) |->
        LET col == HeaderNames[i] IN
        IF col \notin DOMAIN record THEN E
        ELSE IF col = "year_established" THEN Str(record[col])
        ELSE IF col \in {"latitude", "longitude"} THEN CoordStr(record[col])
        ELSE record[col]]

append_record(s, record) == AppendRow(s, RecordCells(record))

\* [df.columns.tolist()] + df.fillna("").astype(str).values.tolist()
FrameGrid(df) ==
    <<df.columns>> \o
    [r \in 1..Len(df.rows) |->
        [i \in 1..Len(df.columns) |->
            IF df.columns[i] \in CoordCols THEN CoordText(df.rows[r][i])
            ELSE df.rows[r][i]]]

----------------------------------------------------------------------------
(* Address normaliser *)

\* the loop running over [city, comuna, ...]: city before comuna
build_full_address_CityFirst(street_and_number, unit_or_sector, comuna, city, region, country, postal_code) ==
    LET parts0 == <<street_and_number>>
        parts1 == IF unit_or_sector # E THEN Append(parts0, unit_or_sector)
                  ELSE parts0
        rest == <<city, comuna, region, country, postal_code>>
    IN Join(parts1 \o SelectSeq(rest, LAMBDA p : p # E))

build_full_address(street_and_number, unit_or_sector, comuna, city, region, country, postal_code) ==
    LET parts0 == <<street_and_number>>
        parts1 == IF unit_or_sector # E THEN Append(parts0, unit_or_sector)
                  ELSE parts0
        rest == <<comuna, city, region, country, postal_code>>
    IN Join(parts1 \o SelectSeq(rest, LAMBDA p : p # E))

----------------------------------------------------------------------------
(* Geocoding adapter *)

\* what get_geocoder() and the rate-limited lookup can do on one call
GeoOutcomes ==
    {[kind |-> "geocoder_error", lat |-> 0, lon |-> 0],
     [kind |-> "provider_error", lat |-> 0, lon |-> 0],
     [kind |-> "no_match", lat |-> 0, lon |-> 0]}
    \cup {[kind |-> "match", lat |-> la, lon |-> lo] : la \in Lats, lo \in Lons}

\* geocode_address: get_geocoder() is called before the try block
geocode_address(outcome) ==
    IF outcome.kind = "geocoder_error"
    THEN [raised |-> TRUE, lat |-> None, lon |-> None, status |-> T("raised")]
    ELSE IF outcome.kind = "provider_error"
    THEN [raised |-> FALSE, lat |-> None, lon |-> None,
          status |-> <<"error:", " ", "provider">>]
    ELSE IF outcome.kind = "no_match"
    THEN [raised |-> FALSE, lat |-> None, lon |-> None, status |-> T("not_found")]
    ELSE [raised |-> FALSE, lat |-> Num(outcome.lat), lon |-> Num(outcome.lon),
          status |-> T("ok")]

----------------------------------------------------------------------------
(* Inputs of the page script *)

TextFields ==
    {"rep_name", "email", "space_name", "street_and_number", "unit_or_sector",
     "comuna", "city", "region", "country", "postal_code", "notes"}

\* the form of the spec's example, every field filled
BaseForm ==
    [rep_name |-> T("Jane"), email |-> T("jane@x.cl"), space_name |-> T("Huerta"),
     street_and_number |-> <<"Av.", " ", "1234">>, unit_or_sector |-> T("402"),
     comuna |-> T("Talagante"), city |-> T("Ciudad"), region |-> T("RM"),
     country |-> T("Chile"), postal_code |-> T("9670000"), notes |-> T("nota")]

\* fields also tried with a value made of a blank only
BlankFields == {"comuna"}

\* fields also tried empty: the seven the form marks with *
EmptyFields ==
    {"rep_name", "email", "space_name", "street_and_number", "comuna", "region",
     "country"}

\* the base form, and the base form with one field left empty or blank
Forms ==
    {BaseForm}
    \cup {[BaseForm EXCEPT ![f] = E] : f \in EmptyFields}
    \cup {[BaseForm EXCEPT ![f] = Blank] : f \in BlankFields}

\* a value typed with a blank before and after it
Padded(t) == Blank \o t \o Blank

\* the base form with any one field left empty, blank or padded
WideForms ==
    {BaseForm}
    \cup {[BaseForm EXCEPT ![f] = E] : f \in TextFields}
    \cup {[BaseForm EXCEPT ![f] = Blank] : f \in TextFields}
    \cup {[BaseForm EXCEPT ![f] = Padded(BaseForm[f])] : f \in TextFields}

----------------------------------------------------------------------------
(* Map tab: the guards every script run passes before the other tabs run *)

ValidPoint(df, r) ==
    /\ df.rows[r][Col(df, "latitude")] # NaN
    /\ df.rows[r][Col(df, "longitude")] # NaN

\* lines 220-232: st.stop() on an empty frame or on no valid coordinates
\* (a frame without the coordinate columns ends the run with a KeyError)
MapStops(df) ==
    \/ df.rows = << >>
    \/ ~HasCol(df, "latitude") \/ ~HasCol(df, "longitude")
    \/ \A r \in 1..Len(df.rows) : ~ValidPoint(df, r)

----------------------------------------------------------------------------
(* Registration workflow *)

Mandatory ==
    <<"rep_name", "email", "space_name", "street_and_number", "comuna",
      "region", "country">>

\* the check with the last mandatory field (country) left out
MandatoryMissing_NoCountry(form) ==
    \E i \in 1..(Len(Mandatory) - 1) : form[Mandatory[i]] = E

\* line 549: any(not x for x in mandatory)
MandatoryMissing(form) == \E i \in 1..Len(Mandatory) : form[Mandatory[i]] = E

\* the check rejecting only "not_found", letting provider errors through
GeocodeFailed_OnlyNotFound(geo) == geo.status = T("not_found")

\* line 557: status != "ok" or lat is None or lon is None
GeocodeFailed(geo) == geo.status # T("ok") \/ geo.lat = None \/ geo.lon = None

\* lines 552-554
FormAddress(form) ==
    build_full_address(form.street_and_number, form.unit_or_sector, form.comuna,
                       form.city, form.region, form.country, form.postal_code)

\* lines 561-581
MakeRecord(form, year, full_address, geo, id) ==
    [record_id |-> T("uuid" \o ToString(id)),
     timestamp |-> T("utcnow"),
     rep_name |-> Strip(form.rep_name),
     email |-> Strip(form.email),
     space_name |-> Strip(form.space_name),
     year_established |-> year,
     street_and_number |-> Strip(form.street_and_number),
     unit_or_sector |-> Strip(form.unit_or_sector),
     comuna |-> Strip(form.comuna),
     city |-> Strip(form.city),
     region |-> Strip(form.region),
     country |-> Strip(form.country),
     postal_code |-> Strip(form.postal_code),
     full_address |-> full_address,
     latitude |-> geo.lat,
     longitude |-> geo.lon,
     geocode_provider |-> <<"Nominatim", " ", "(OSM)">>,
     geocode_status |-> geo.status,
     notes |-> Strip(form.notes)]

NoGeo == [raised |-> FALSE, lat |-> None, lon |-> None, status |-> E]
NoRecord == [record_id |-> E]
NoForm == [f \in TextFields |-> E]
NoEdit == [row |-> 0, col |-> "none"]

\* the submit handler (lines 546-587) on worksheet s: what it leaves behind
Submit(s, form, year, outcome, appendOk, id) ==
    LET base == [kind |-> "register", before |-> s, form |-> form,
                 flags |-> {}, edit |-> NoEdit, pwd |-> "",
                 geo |-> NoGeo, record |-> NoRecord, calls |-> {}]
        address == FormAddress(form)
        geo == geocode_address(outcome)
        record == MakeRecord(form, year, address, geo, id)
    IN
    IF MapStops(read_df(s))
    THEN [sheet |-> s, run |-> base @@ [outcome |-> "stopped"]]
    ELSE IF MandatoryMissing(form)
    THEN [sheet |-> s, run |-> base @@ [outcome |-> "invalid"]]
    ELSE IF geo.raised
    THEN [sheet |-> s,
          run |-> [base EXCEPT !.geo = geo, !.calls = {"geocode_address"}]
                  @@ [outcome |-> "raised"]]
    ELSE IF GeocodeFailed(geo)
    THEN [sheet |-> s,
          run |-> [base EXCEPT !.geo = geo, !.calls = {"geocode_address"}]
                  @@ [outcome |-> "geocode_failed"]]
    ELSE LET called == [base EXCEPT !.geo = geo, !.record = record,
                            !.calls = {"geocode_address", "append_record"}]
         IN IF appendOk
            THEN [sheet |-> append_record(s, record),
                  run |-> called @@ [outcome |-> "done"]]
            ELSE [sheet |-> s, run |-> called @@ [outcome |-> "persist_failed"]]

----------------------------------------------------------------------------
(* Administration workflow *)

\* cells the administrator changes in the editor, with the value typed in
EditCols == {"geocode_status"}

EditValue(col) ==
    IF col = "geocode_status" THEN T("not_found")
    ELSE IF col = "latitude" THEN NaN
    ELSE T("editado")

Edits(df) ==
    {NoEdit} \cup
    {[row |-> r, col |-> c] : r \in 1..Len(df.rows),
                              c \in {e \in EditCols : HasCol(df, e)}}

\* the passphrase typed in, and what the Sheets API does to the two calls
\* of overwrite_df
SaveEnvs ==
    {[pwd |-> "mau", api |-> "ok"]}
    \cup {[pwd |-> "demo", api |-> a] : a \in {"ok", "clear_fails", "update_fails"}}

\* what the geocoder and the append do during one submission
SubmitEnvs ==
    {[geo |-> o, appendOk |-> TRUE] : o \in GeoOutcomes}
    \cup {[geo |-> o, appendOk |-> FALSE] : o \in {g \in GeoOutcomes : g.kind = "match"}}

\* st.data_editor: the frame with the administrator's edit applied
ApplyEdit(df, edit) ==
    IF edit = NoEdit THEN df
    ELSE [df EXCEPT !.rows[edit.row][Col(df, edit.col)] = EditValue(edit.col)]

\* the filter without its negation: the flagged rows are the ones kept
Unflagged_Flagged(n, flags) == SelectSeq([i \in 1..n |-> i], LAMBDA i : i \in flags)

\* line 628: edited[~edited["delete"]], the rows left in their order
Unflagged(n, flags) == SelectSeq([i \in 1..n |-> i], LAMBDA i : i \notin flags)

\* lines 628-633: drop the flagged rows, backfill the missing canonical
\* columns with "", reorder to get_headers()
Keep(edited, flags) ==
    LET kept == Unflagged(Len(edited.rows), flags)
        Value(r, i) ==
            IF HasCol(edited, HeaderNames[i])
            THEN edited.rows[r][Col(edited, HeaderNames[i])]
            ELSE IF get_headers[i] \in CoordCols THEN NaN ELSE E
    IN [ columns |-> get_headers,
         rows |-> [k \in 1..Len(kept) |->
                     [i \in 1..Len(get_headers) |-> Value(kept[k], i)]] ]

\* the save handler (lines 592-637) on worksheet s; overwrite_df is
\* ws.clear() followed by ws.update(), either of which can fail
Save(s, pwd, flags, edit, clearOk, updateOk) ==
    LET base == [kind |-> "save", before |-> s, form |-> NoForm,
                 flags |-> {}, edit |-> NoEdit, pwd |-> pwd,
                 geo |-> NoGeo, record |-> NoRecord, calls |-> {}]
        df == read_df(s)
        keep == Keep(ApplyEdit(df, edit), flags)
        tried == [base EXCEPT !.flags = flags, !.edit = edit]
    IN
    IF MapStops(df)
    THEN [sheet |-> s, run |-> base @@ [outcome |-> "stopped"]]
    ELSE IF pwd # "demo"
    THEN [sheet |-> s, run |-> base @@ [outcome |-> "denied"]]
    ELSE IF ~clearOk
    THEN [sheet |-> s,
          run |-> [tried EXCEPT !.calls = {"clear"}] @@ [outcome |-> "save_failed"]]
    ELSE IF ~updateOk
    THEN [sheet |-> WsClear(s),
          run |-> [tried EXCEPT !.calls = {"clear", "update"}]
                  @@ [outcome |-> "save_failed"]]
    ELSE [sheet |-> WsUpdate(WsClear(s), FrameGrid(keep)),
          run |-> [tried EXCEPT !.calls = {"clear", "update"}]
                  @@ [outcome |-> "saved"]]

----------------------------------------------------------------------------
(* The state machine: one action per script run *)

MaxRecords == 1

Sessions == {1, 2}

\* build_full_address has not been called on its own
NoAddress == [args |-> << >>, done |-> FALSE, out |-> E]

\* no lookup was ever made: no RateLimiter exists, nothing was sent
RateInit ==
    /\ addr = NoAddress
    /\ clock = 0
    /\ limiters = << >>
    /\ cachedLimiter = 0
    /\ holding = [s \in Sessions |-> 0]
    /\ sent = << >>

Extras(header) == Range(header) \ (Range(get_headers) \cup {E})

SeedGeo == geocode_address(CHOOSE o \in GeoOutcomes : o.kind = "match")

\* a record an earlier registration left in the worksheet
SeedRow ==
    Trim(RecordCells(MakeRecord(BaseForm, CHOOSE y \in Years : TRUE,
                                FormAddress(BaseForm), SeedGeo, 0)))

\* worksheets the application can be pointed at: blank, canonical, with a
\* column of the owner's before or after the canonical ones, or with only
\* some of the canonical columns
InitSheets ==
    { << >>,
      <<get_headers>>,
      <<get_headers, SeedRow>>,
      <<get_headers \o <<T("zona")>>, SeedRow \o <<T("sur")>>>>,
      <<<<T("zona")>> \o get_headers, <<T("sur")>> \o SeedRow>>,
      << <<T("zona"), T("latitude"), T("longitude"), T("geocode_status")>>,
         <<T("sur"), Str(CHOOSE n \in Lats : TRUE), Str(CHOOSE n \in Lons : TRUE),
           T("ok")>> >> }

NoRun(s) ==
    [kind |-> "none", before |-> s, form |-> NoForm, flags |-> {},
     edit |-> NoEdit, pwd |-> "", geo |-> NoGeo, record |-> NoRecord,
     calls |-> {}, outcome |-> "none"]

Init ==
    /\ sheet \in InitSheets
    /\ cached = FALSE
    /\ nextId = 0
    /\ seenExtra = Extras(Header(sheet))
    /\ lastRun = NoRun(sheet)
    /\ pc = [s \in Sessions |-> "idle"]
    /\ snap = [s \in Sessions |-> << >>]
    /\ finished = << >>
    /\ RateInit

\* first page load, the map tab's reload button, or a restart of the
\* process: the cached resources are gone and read_df runs
\* open_or_init_sheet again
Load ==
    /\ sheet' = open_or_init_sheet(sheet)
    /\ cached' = TRUE
    /\ lastRun' = [NoRun(sheet) EXCEPT !.kind = "load", !.outcome = "loaded"]
    /\ seenExtra' = seenExtra \cup Extras(Header(sheet'))
    /\ UNCHANGED <<nextId, pc, snap, finished>>
    /\ UNCHANGED <<rateVars, addr>>

\* the registration form is submitted with one of the given forms
RegisterFrom(forms) ==
    /\ cached
    /\ nextId < MaxRecords
    /\ \E form \in forms, year \in Years, env \in SubmitEnvs :
         LET res == Submit(sheet, form, year, env.geo, env.appendOk, nextId + 1) IN
         /\ sheet' = res.sheet
         /\ lastRun' = res.run
         /\ nextId' = IF "append_record" \in res.run.calls THEN nextId + 1
                      ELSE nextId
    /\ seenExtra' = seenExtra \cup Extras(Header(sheet'))
    /\ UNCHANGED <<cached, pc, snap, finished>>
    /\ UNCHANGED <<rateVars, addr>>

\* "Guardar cambios" is pressed in the administration tab
AdminSave ==
    /\ cached
    /\ \E env \in SaveEnvs :
       \E flags \in SUBSET (1..Len(DataRows(sheet))) :
       \E edit \in {e \in Edits(read_df(sheet)) : e.row \notin flags} :
         LET res == Save(sheet, env.pwd, flags, edit, env.api # "clear_fails",
                            env.api = "ok") IN
         /\ sheet' = res.sheet
         /\ lastRun' = res.run
    /\ seenExtra' = seenExtra \cup Extras(Header(sheet'))
    /\ UNCHANGED <<cached, nextId, pc, snap, finished>>
    /\ UNCHANGED <<rateVars, addr>>

Register == RegisterFrom(Forms)

Next == Load \/ Register \/ AdminSave

Spec == Init /\ [][Next]_vars

----------------------------------------------------------------------------
(* Registration alone, over the wider set of forms *)

RegisterWide == RegisterFrom(WideForms)

NextRegistration == Load \/ RegisterWide

SpecRegistration == Init /\ [][NextRegistration]_vars

----------------------------------------------------------------------------
(* The schema guard alone, over header rows found in a worksheet *)

MaxHeaderLen == 3

HeaderCells == {T("zona"), T("sector"), T("notes"), E}

\* header rows of up to MaxHeaderLen cells (a row never ends in an empty cell)
InitHeaders ==
    {h \in UNION {[1..n -> HeaderCells] : n \in 0..MaxHeaderLen} : Trim(h) = h}

InitSchema ==
    /\ sheet \in {IF h = << >> THEN << >> ELSE <<h>> : h \in InitHeaders}
                \cup InitSheets
    /\ cached = FALSE
    /\ nextId = 0
    /\ seenExtra = Extras(Header(sheet))
    /\ lastRun = NoRun(sheet)
    /\ pc = [s \in Sessions |-> "idle"]
    /\ snap = [s \in Sessions |-> << >>]
    /\ finished = << >>
    /\ RateInit

NextSchema == Load

SpecSchema == InitSchema /\ [][NextSchema]_vars

----------------------------------------------------------------------------
(* Two administration sessions saving at the same time as a registration   *)
(* appends: overwrite_df is two calls of the Sheets API, and the calls of   *)
(* different sessions interleave                                            *)

RaceRecord ==
    MakeRecord([BaseForm EXCEPT !.rep_name = T("Ana")], CHOOSE y \in Years : TRUE,
               FormAddress(BaseForm), SeedGeo, 1)

SecondRow ==
    Trim(RecordCells(MakeRecord([BaseForm EXCEPT !.rep_name = T("Luz")],
                                CHOOSE y \in Years : TRUE,
                                FormAddress(BaseForm), SeedGeo, 2)))

InitRace ==
    /\ sheet = <<get_headers, SeedRow, SecondRow>>
    /\ cached = TRUE
    /\ nextId = 0
    /\ seenExtra = {}
    /\ lastRun = NoRun(sheet)
    /\ pc = [s \in Sessions |-> "idle"]
    /\ snap = [s \in Sessions |-> << >>]
    /\ finished = << >>
    /\ RateInit

\* session s presses "Guardar cambios": its run reads the worksheet, passes
\* the guards and builds the frame to write (lines 599-633)
RaceStart(s) ==
    /\ pc[s] = "idle"
    /\ LET df == read_df(sheet) IN
       /\ ~MapStops(df)
       /\ \E flags \in SUBSET (1..Len(df.rows)) :
          \E edit \in {e \in Edits(df) : e.row \notin flags} :
             snap' = [snap EXCEPT ![s] = FrameGrid(Keep(ApplyEdit(df, edit), flags))]
    /\ pc' = [pc EXCEPT ![s] = "clear"]
    /\ UNCHANGED <<sheet, cached, nextId, seenExtra, lastRun, finished>>
    /\ UNCHANGED <<rateVars, addr>>

\* line 128: ws.clear()
RaceClear(s) ==
    /\ pc[s] = "clear"
    /\ sheet' = WsClear(sheet)
    /\ pc' = [pc EXCEPT ![s] = "update"]
    /\ UNCHANGED <<cached, nextId, seenExtra, lastRun, snap, finished>>
    /\ UNCHANGED <<rateVars, addr>>

\* line 129: ws.update(...)
RaceUpdate(s) ==
    /\ pc[s] = "update"
    /\ sheet' = WsUpdate(sheet, snap[s])
    /\ pc' = [pc EXCEPT ![s] = "done"]
    /\ finished' = Append(finished, s)
    /\ UNCHANGED <<cached, nextId, seenExtra, lastRun, snap>>
    /\ UNCHANGED <<rateVars, addr>>

\* a registration that passed its checks reaches append_record (line 583)
RaceAppend ==
    /\ nextId = 0
    /\ sheet' = append_record(sheet, RaceRecord)
    /\ nextId' = 1
    /\ finished' = Append(finished, 0)
    /\ UNCHANGED <<cached, seenExtra, lastRun, pc, snap>>
    /\ UNCHANGED <<rateVars, addr>>

NextRace ==
    \/ \E s \in Sessions : RaceStart(s)
    \/ \E s \in Sessions : RaceClear(s)
    \/ \E s \in Sessions : RaceUpdate(s)
    \/ RaceAppend

SpecRace == InitRace /\ [][NextRace]_vars

----------------------------------------------------------------------------
(* The rate limiter: sessions submitting while time passes and the map      *)
(* tab's reload button clears the cached resources                          *)

min_delay_seconds == 1

TicksPerSecond == 2

MaxClock == 4

MaxLimiters == 2

MaxRequests == 3

MinDelayTicks == min_delay_seconds * TicksPerSecond

InitRate ==
    /\ sheet = <<get_headers, SeedRow>>
    /\ cached = TRUE
    /\ nextId = 0
    /\ seenExtra = {}
    /\ lastRun = NoRun(sheet)
    /\ pc = [s \in Sessions |-> "idle"]
    /\ snap = [s \in Sessions |-> << >>]
    /\ finished = << >>
    /\ RateInit

\* time passes
Tick ==
    /\ clock < MaxClock
    /\ clock' = clock + 1
    /\ UNCHANGED <<sheet, cached, nextId, seenExtra, lastRun, pc, snap, finished,
                   limiters, cachedLimiter, holding, sent, addr>>

\* lines 215-218: the reload button clears st.cache_resource, which drops
\* the cached RateLimiter together with the cached worksheet; the rerun
\* opens the worksheet again
RateReload ==
    /\ cachedLimiter' = 0
    /\ sheet' = open_or_init_sheet(sheet)
    /\ cached' = TRUE
    /\ UNCHANGED <<nextId, seenExtra, lastRun, pc, snap, finished,
                   clock, limiters, holding, sent, addr>>

\* session s submits a valid form and geocode_address obtains the geocoder:
\* get_geocoder() returns the cached RateLimiter, or builds one that has
\* made no call yet (lines 143-147, 168)
RateSubmit(s) ==
    /\ holding[s] = 0
    /\ cached
    /\ ~MapStops(read_df(sheet))
    /\ IF cachedLimiter # 0
       THEN /\ holding' = [holding EXCEPT ![s] = cachedLimiter]
            /\ UNCHANGED <<limiters, cachedLimiter>>
       ELSE /\ Len(limiters) < MaxLimiters
            /\ limiters' = Append(limiters, -1)
            /\ cachedLimiter' = Len(limiters) + 1
            /\ holding' = [holding EXCEPT ![s] = Len(limiters) + 1]
    /\ UNCHANGED <<sheet, cached, nextId, seenExtra, lastRun, pc, snap, finished,
                   clock, sent, addr>>

\* RateLimiter(min_delay_seconds=1.0): the call goes out once the limiter's
\* last call is at least the minimum delay away
LimiterAllows(last, now) == last = -1 \/ now - last >= MinDelayTicks

\* the pending lookup of session s goes to the service (line 170) and the
\* handler runs to its end (lines 171-175, 557-587)
RateSend(s) ==
    /\ holding[s] # 0
    /\ Len(sent) < MaxRequests
    /\ LimiterAllows(limiters[holding[s]], clock)
    /\ limiters' = [limiters EXCEPT ![holding[s]] = clock]
    /\ sent' = Append(sent, clock)
    /\ holding' = [holding EXCEPT ![s] = 0]
    /\ \E year \in Years, env \in {e \in SubmitEnvs : e.geo.kind # "geocoder_error"} :
         LET res == Submit(sheet, BaseForm, year, env.geo, env.appendOk, nextId + 1) IN
         /\ env.geo.kind = "match" => nextId < MaxRecords
         /\ sheet' = res.sheet
         /\ lastRun' = res.run
         /\ nextId' = IF "append_record" \in res.run.calls THEN nextId + 1
                      ELSE nextId
    /\ UNCHANGED <<cached, seenExtra, pc, snap, finished, clock, cachedLimiter, addr>>

NextRate ==
    \/ Tick
    \/ RateReload
    \/ \E s \in Sessions : RateSubmit(s)
    \/ \E s \in Sessions : RateSend(s)

SpecRate == InitRate /\ [][NextRate]_vars

----------------------------------------------------------------------------
(* The address normaliser alone, over combinations of its seven arguments *)

\* street_and_number is never empty when build_full_address runs
StreetValues == {<<"Av.", " ", "1234">>, T("Pasaje")}

\* the other six arguments, in the order of the signature: each is empty,
\* a blank, or a value of its own
OtherValues ==
    << {E, Blank, T("402")}, {E, Blank, T("Talagante")}, {E, Blank, T("Ciudad")},
       {E, Blank, <<"Region", " ", "Metropolitana">>}, {E, Blank, T("Chile")},
       {E, Blank, T("9670000")} >>

AddressArgs ==
    {a \in [1..7 -> UNION ({StreetValues} \cup Range(OtherValues))] :
        /\ a[1] \in StreetValues
        /\ \A i \in 2..7 : a[i] \in OtherValues[i - 1]}

InitAddress ==
    /\ sheet = << >>
    /\ cached = FALSE
    /\ nextId = 0
    /\ seenExtra = {}
    /\ lastRun = NoRun(sheet)
    /\ pc = [s \in Sessions |-> "idle"]
    /\ snap = [s \in Sessions |-> << >>]
    /\ finished = << >>
    /\ clock = 0
    /\ limiters = << >>
    /\ cachedLimiter = 0
    /\ holding = [s \in Sessions |-> 0]
    /\ sent = << >>
    /\ addr \in {[args |-> a, done |-> FALSE, out |-> E] : a \in AddressArgs}

\* lines 552-554: the call
BuildAddress ==
    /\ ~addr.done
    /\ LET a == addr.args IN
       addr' = [addr EXCEPT !.done = TRUE,
                            !.out = build_full_address(a[1], a[2], a[3], a[4], a[5],
                                                       a[6], a[7])]
    /\ UNCHANGED <<sheet, cached, nextId, seenExtra, lastRun, pc, snap, finished,
                   rateVars>>

NextAddress == BuildAddress

SpecAddress == InitAddress /\ [][NextAddress]_vars

----------------------------------------------------------------------------
(* Properties *)

OK == T("ok")

\* the cell a row holds at the canonical position of a field
Written(row, name) == Cell(row, Pos(name))

LastRow(s) == s[Len(s)]

Appended(before, after) ==
    /\ Len(after) = Len(before) + 1
    /\ SubSeq(after, 1, Len(before)) = before

\* C1 as claimed: every row of the store has geocode_status "ok" and both
\* coordinates, whatever registrations and administration saves came before
\* (read on worksheets whose header row is the canonical one).
C1_EveryRowGeocoded ==
    Header(sheet) = get_headers =>
        LET df == read_df(sheet) IN
        \A r \in 1..Len(df.rows) :
            /\ Field(df, r, "geocode_status") = OK
            /\ Field(df, r, "latitude") # NaN
            /\ Field(df, r, "longitude") # NaN

\* C1 amended: a registration whose geocode does not return "ok" (not_found,
\* error, or an exception) leaves the store as it was, and a registration
\* that changes the store appends exactly one row whose geocode_status,
\* latitude and longitude cells hold "ok" and two numbers.
C1_RegistrationStoresOnlyGeocoded ==
    lastRun.kind = "register" =>
        /\ lastRun.geo.status # OK => sheet = lastRun.before
        /\ sheet # lastRun.before =>
              /\ Appended(lastRun.before, sheet)
              /\ lastRun.geo.status = OK
              /\ Written(LastRow(sheet), "geocode_status") = OK
              /\ to_numeric(Written(LastRow(sheet), "latitude")) # NaN
              /\ to_numeric(Written(LastRow(sheet), "longitude")) # NaN

C1_Witness ==
    /\ lastRun.kind = "register"
    /\ lastRun.outcome = "done"
    /\ sheet # lastRun.before

RequiredFields ==
    {"rep_name", "email", "space_name", "street_and_number", "comuna", "region",
     "country"}

\* C2: a submission with any required field empty ends without success,
\* without a call of geocode_address or append_record, and with the store
\* unchanged.
C2_InvalidFormHasNoEffect ==
    (lastRun.kind = "register" /\ \E f \in RequiredFields : lastRun.form[f] = E) =>
        /\ lastRun.outcome \in {"invalid", "stopped"}
        /\ lastRun.calls \cap {"geocode_address", "append_record"} = {}
        /\ sheet = lastRun.before

C2_Witness ==
    /\ lastRun.kind = "register"
    /\ lastRun.outcome = "invalid"
    /\ lastRun.form.country = E

\* C4: once the schema guard has run, the header row is the canonical list
\* followed by every extra column that ever stood in the header.
C4_CanonicalThenExtras ==
    cached =>
        LET h == Header(sheet) IN
        /\ Len(h) >= Len(get_headers)
        /\ SubSeq(h, 1, Len(get_headers)) = get_headers
        /\ seenExtra \subseteq Range(h)

\* the value read_df gives back for what append_record was handed
ReadBack(record, name) ==
    IF name = "year_established" THEN Str(record[name])
    ELSE IF name \in {"latitude", "longitude"} THEN Num(record[name].num)
    ELSE record[name]

\* C5: the record a registration appended is the last record read_df
\* returns, with the written value in every canonical field.
C5_RoundTrip ==
    lastRun.outcome = "done" =>
        LET df == read_df(sheet) IN
        /\ df.rows # << >>
        /\ \A i \in 1..Len(HeaderNames) :
              /\ HasCol(df, HeaderNames[i])
              /\ Field(df, Len(df.rows), HeaderNames[i])
                    = ReadBack(lastRun.record, HeaderNames[i])

\* the k-th of the rows 1..n that carry no deletion flag
KthKept(n, flags, k) ==
    CHOOSE i \in (1..n) \ flags : Cardinality((1..i) \ flags) = k

\* a canonical field of a row of a frame, "" or missing when the frame has
\* no such column
CanonField(df, r, name) ==
    IF HasCol(df, name) THEN Field(df, r, name)
    ELSE IF T(name) \in CoordCols THEN NaN ELSE E

\* C6: a completed administration save that only flags rows leaves the
\* canonical header row and, read back, exactly the unflagged rows in
\* their order.
C6_SaveKeepsUnflagged ==
    (lastRun.kind = "save" /\ lastRun.outcome = "saved" /\ lastRun.edit = NoEdit) =>
        LET old == read_df(lastRun.before)
            new == read_df(sheet)
            n == Len(old.rows)
        IN
        /\ Header(sheet) = get_headers
        /\ Len(new.rows) = n - Cardinality(lastRun.flags)
        /\ \A k \in 1..Len(new.rows) :
              \A i \in 1..Len(HeaderNames) :
                 Field(new, k, HeaderNames[i])
                    = CanonField(old, KthKept(n, lastRun.flags, k), HeaderNames[i])

C6_Witness ==
    /\ lastRun.kind = "save"
    /\ lastRun.outcome = "saved"
    /\ lastRun.edit = NoEdit
    /\ lastRun.flags # {}
    /\ Len(DataRows(sheet)) >= 1
    /\ Len(DataRows(lastRun.before)) > Cardinality(lastRun.flags)

\* C7: the full_address of an appended record is build_full_address of the
\* address fields stored in the same record (read on the records whose
\* required fields are all stored non-empty).
C7_FullAddressOfStoredFields ==
    (lastRun.outcome = "done" /\ \A f \in RequiredFields : lastRun.record[f] # E) =>
        LET rec == lastRun.record IN
        rec.full_address =
            build_full_address(rec.street_and_number, rec.unit_or_sector,
                               rec.comuna, rec.city, rec.region, rec.country,
                               rec.postal_code)

\* C8: an administration save that fails leaves the store as it was when
\* the save started.
C8_FailedSaveLeavesStore ==
    (lastRun.kind = "save" /\ lastRun.outcome = "save_failed") =>
        sheet = lastRun.before

\* C10: geocode_address returns to its caller on every outcome, with status
\* "ok", "not_found" or an error status, and with both coordinates exactly
\* when the status is "ok" and neither otherwise.
C10_GeocodeNeverRaises ==
    "geocode_address" \in lastRun.calls =>
        LET geo == lastRun.geo IN
        /\ ~geo.raised
        /\ geo.status \in {OK, T("not_found")} \/ Head(geo.status) = "error:"
        /\ geo.status = OK <=> (geo.lat # None /\ geo.lon # None)
        /\ geo.status # OK <=> (geo.lat = None /\ geo.lon = None)

\* C3: the schema guard keeps every cell of the header row it found at its
\* position, appends exactly the missing canonical columns after them, and
\* run a second time leaves the header row of the first run.
C3_SchemaIdempotentNonDestructive ==
    lastRun.kind = "load" =>
        LET old == Header(lastRun.before)
            new == Header(sheet)
        IN
        /\ Header(open_or_init_sheet(sheet)) = new
        /\ Len(new) >= Len(old)
        /\ SubSeq(new, 1, Len(old)) = old
        /\ SubSeq(new, Len(old) + 1, Len(new))
              = SelectCells(get_headers, Range(get_headers) \ Range(old))

TrimGrid(grid) == [i \in 1..Len(grid) |-> Trim(grid[i])]

Index(seq, x) == CHOOSE i \in 1..Len(seq) : seq[i] = x

\* the save that finished last
LastSave == finished[CHOOSE i \in 1..Len(finished) :
                        /\ finished[i] \in Sessions
                        /\ \A j \in (i + 1)..Len(finished) : finished[j] \notin Sessions]

\* C9: when the interleaved saves have completed, the worksheet is the
\* snapshot of the save that finished last (followed by the appended row
\* when the append came after that save).
C9_LastSaveWins ==
    (\A s \in Sessions : pc[s] = "done") =>
        LET grid == TrimGrid(snap[LastSave]) IN
        IF nextId = 1 /\ Index(finished, 0) > Index(finished, LastSave)
        THEN sheet = Append(grid, Trim(RecordCells(RaceRecord)))
        ELSE sheet = grid

\* C11: any two consecutive requests to the geocoding service are at least
\* the minimum interval apart, whatever the sessions do and whenever the
\* cached resources are cleared.
C11_MinInterval ==
    \A i \in 1..(Len(sent) - 1) : sent[i + 1] - sent[i] >= MinDelayTicks

\* the components of a text between its ", " separators
RECURSIVE SplitAddress(_, _)
SplitAddress(t, part) ==
    IF t = E THEN <<part>>
    ELSE IF Len(t) >= 2 /\ t[1] = "," /\ t[2] = " "
         THEN <<part>> \o SplitAddress(SubSeq(t, 3, Len(t)), E)
         ELSE SplitAddress(Tail(t), Append(part, Head(t)))

\* C12: the result of build_full_address, cut at its ", " separators, is
\* the sequence of its non-empty arguments in the order of the signature
\* (street_and_number first, then unit_or_sector, comuna, city, region,
\* country, postal_code).
C12_AddressOrder ==
    addr.done =>
        /\ SplitAddress(addr.out, E) = SelectSeq(addr.args, LAMBDA p : p # E)
        /\ Head(SplitAddress(addr.out, E)) = addr.args[1]

\* the example of the specification: no unit, no city, no postal code
C12_Witness ==
    /\ addr.done
    /\ addr.args[2] = E /\ addr.args[4] = E /\ addr.args[7] = E
    /\ addr.args[3] # E /\ addr.args[5] # E /\ addr.args[6] # E
    /\ addr.out = addr.args[1] \o <<",", " ">> \o addr.args[3] \o <<",", " ">>
                    \o addr.args[5] \o <<",", " ">> \o addr.args[6]

\* a submission that runs through to Done and leaves its record in the store
RegisterDone ==
    /\ Register
    /\ lastRun'.outcome = "done"
    /\ Appended(sheet, sheet')

\* C13: in every state of the store, the empty one and the one without valid
\* coordinates included, a submission with the required fields filled and a
\* geocode result of "ok" can reach Done and leave its record in the store.
C13_RegistrationReachable ==
    (cached /\ nextId < MaxRecords) => ENABLED RegisterDone

\* C14: every record a registration appends has a non-empty value stored in
\* each of the seven required fields.
C14_RequiredFieldsStored ==
    lastRun.outcome = "done" =>
        \A f \in RequiredFields :
            /\ lastRun.record[f] # E
            /\ Written(LastRow(sheet), f) # E

====
